---- MODULE Spec2Model ----
(***************************************************************************)
(* A model of internal/cmd/generate-protos/main.go: the dual-mode entry    *)
(* point (protoc plugin / batch driver), the local and remote generation   *)
(* passes with their staging directories, the field-number extractor and   *)
(* syncOutput (apply / diff).                                              *)
(*                                                                         *)
(* Paths are strings, and the path and string functions of the Go code     *)
(* (HasSuffix, Rel, Dir, Base, Join, Split, the exclude regexp, the byte   *)
(* order of sort.Strings) are computed character by character.  protoc,    *)
(* the two code generators and go/format are external programs: the model  *)
(* records what they are called with and which files they leave behind.    *)
(***************************************************************************)
EXTENDS Integers, Sequences, FiniteSets, TLC

(***************************************************************************)
(* Bounds of the model.                                                    *)
(***************************************************************************)
\* Request files of one plugin invocation.
MaxReqFiles == 2
\* Shape of the message trees of a request file.
MaxDepth == 2
MaxWidth == 2
MaxFields == 2
\* syncOutput calls of the re-sync specification.
MaxSyncs == 4

(***************************************************************************)
(* Strings.                                                                *)
(***************************************************************************)
\* The characters the model's strings use, in byte order.
Alphabet == " \"-./0123456789ABCDEFGHIJKLMNOPQRSTUVWXYZ_abcdefghijklmnopqrstuvwxyz"

Char(s, i) == SubSeq(s, i, i)

Ord(c) == CHOOSE i \in 1..Len(Alphabet) : Char(Alphabet, i) = c

HasPrefix(s, p) == Len(s) >= Len(p) /\ SubSeq(s, 1, Len(p)) = p

HasSuffix(s, suf) ==
  Len(s) >= Len(suf) /\ SubSeq(s, Len(s) - Len(suf) + 1, Len(s)) = suf

TrimSuffix(s, suf) ==
  IF HasSuffix(s, suf) THEN SubSeq(s, 1, Len(s) - Len(suf)) ELSE s

\* Index of the last "/" of s, 0 when it has none.
LastSlash(s) ==
  LET I == {i \in 1..Len(s) : Char(s, i) = "/"}
  IN IF I = {} THEN 0 ELSE CHOOSE i \in I : \A j \in I : j <= i

\* filepath.Dir / path.Base on clean slash paths.
Dir(p) ==
  LET k == LastSlash(p)
  IN IF k = 0 THEN "." ELSE IF k = 1 THEN "/" ELSE SubSeq(p, 1, k - 1)

Base(p) == SubSeq(p, LastSlash(p) + 1, Len(p))

\* path.Join of two elements; an element "." or "" is dropped by Clean.
Join(a, b) ==
  IF b = "." \/ b = "" THEN a
  ELSE IF a = "." \/ a = "" THEN b
  ELSE a \o "/" \o b

\* filepath.Rel(base, target) for a target at or below base, which is all
\* filepath.Walk ever hands to the callbacks.
Rel(base, target) ==
  IF target = base THEN "." ELSE SubSeq(target, Len(base) + 2, Len(target))

\* The first index at which a and b differ, 0 when one is a prefix of the other.
FirstDiff(a, b) ==
  LET n == IF Len(a) < Len(b) THEN Len(a) ELSE Len(b)
      D == {k \in 1..n : Char(a, k) # Char(b, k) /\ SubSeq(a, 1, k - 1) = SubSeq(b, 1, k - 1)}
  IN IF D = {} THEN 0 ELSE CHOOSE k \in D : TRUE

\* Bytewise string order, as Go's < on strings.
StrLess(a, b) ==
  LET k == FirstDiff(a, b)
  IN IF k = 0 THEN Len(a) < Len(b) ELSE Ord(Char(a, k)) < Ord(Char(b, k))

\* The order in which filepath.Walk reaches two paths: directory entries are
\* read sorted by name, so paths compare element by element ("/" lowest).
WalkLess(a, b) ==
  LET k == FirstDiff(a, b)
  IN IF k = 0 THEN Len(a) < Len(b)
     ELSE IF Char(a, k) = "/" THEN TRUE
     ELSE IF Char(b, k) = "/" THEN FALSE
     ELSE Ord(Char(a, k)) < Ord(Char(b, k))

\* The paths of S in filepath.Walk's order.
RECURSIVE WalkOrder(_)
WalkOrder(S) ==
  IF S = {} THEN <<>>
  ELSE LET m == CHOOSE x \in S : \A y \in S \ {x} : WalkLess(x, y)
       IN <<m>> \o WalkOrder(S \ {m})

\* sort.Strings: insertion into an ascending sequence.
RECURSIVE InsertSorted(_, _)
InsertSorted(x, s) ==
  IF s = <<>> THEN <<x>>
  ELSE IF StrLess(Head(s), x) THEN <<Head(s)>> \o InsertSorted(x, Tail(s))
  ELSE <<x>> \o s

\* A variant of SortStrings: the slice is left as the map yielded it.
NoSort(s) == s

RECURSIVE SortStrings(_)
SortStrings(s) ==
  IF s = <<>> THEN <<>> ELSE InsertSorted(Head(s), SortStrings(Tail(s)))

\* strings.Split(s, ","), scanning from index k with the piece begun at b.
RECURSIVE SplitFrom(_, _, _)
SplitFrom(s, b, k) ==
  IF k > Len(s) THEN <<SubSeq(s, b, Len(s))>>
  ELSE IF Char(s, k) = "," THEN <<SubSeq(s, b, k - 1)>> \o SplitFrom(s, k + 1, k + 1)
  ELSE SplitFrom(s, b, k + 1)

Split(s) == SplitFrom(s, 1, 1)

IsDigit(c) == c \in {"0", "1", "2", "3", "4", "5", "6", "7", "8", "9"}

IsHex(c) == IsDigit(c) \/ c \in {"a", "b", "c", "d", "e", "f"}

\* A variant of ExcludeRxMatch: the pattern stops after "proto[23]_".
ExcludeRxLoose(s) ==
  \E i \in 1..(Len(s) - 13) :
    /\ SubSeq(s, i, i + 11) = "legacy/proto"
    /\ Char(s, i + 12) \in {"2", "3"}
    /\ Char(s, i + 13) = "_"

\* excludeRx.MatchString: legacy/proto[23]_[0-9]{8}_[0-9a-f]{8}/ found
\* anywhere in s (32 characters from index i).
ExcludeRxMatch(s) ==
  \E i \in 1..(Len(s) - 31) :
    /\ SubSeq(s, i, i + 11) = "legacy/proto"
    /\ Char(s, i + 12) \in {"2", "3"}
    /\ Char(s, i + 13) = "_"
    /\ \A j \in (i + 14)..(i + 21) : IsDigit(Char(s, j))
    /\ Char(s, i + 22) = "_"
    /\ \A j \in (i + 23)..(i + 30) : IsHex(Char(s, j))
    /\ Char(s, i + 31) = "/"

(***************************************************************************)
(* Program data.                                                           *)
(***************************************************************************)
\* What git rev-parse and go list answer (lines 55-64).
repoRoot == "/repo"

modulePath == "google.golang.org/protobuf"

\* The description files the startup table overrides the Go package of.
protoPackages ==
  [p \in {"google/protobuf/field_mask.proto", "google/protobuf/any.proto",
          "google/protobuf/duration.proto", "google/protobuf/empty.proto",
          "google/protobuf/struct.proto", "google/protobuf/timestamp.proto",
          "google/protobuf/wrappers.proto", "google/protobuf/descriptor.proto",
          "google/protobuf/compiler/plugin.proto", "conformance/conformance.proto",
          "google/protobuf/test_messages_proto2.proto",
          "google/protobuf/test_messages_proto3.proto"} |->
     CASE p = "google/protobuf/field_mask.proto" ->
            "google.golang.org/protobuf/internal/testprotos/fieldmaskpb"
       [] p = "google/protobuf/any.proto" -> "google.golang.org/protobuf/types/known/anypb"
       [] p = "google/protobuf/duration.proto" ->
            "google.golang.org/protobuf/types/known/durationpb"
       [] p = "google/protobuf/empty.proto" -> "google.golang.org/protobuf/types/known/emptypb"
       [] p = "google/protobuf/struct.proto" -> "google.golang.org/protobuf/types/known/structpb"
       [] p = "google/protobuf/timestamp.proto" ->
            "google.golang.org/protobuf/types/known/timestamppb"
       [] p = "google/protobuf/wrappers.proto" ->
            "google.golang.org/protobuf/types/known/wrapperspb"
       [] p = "google/protobuf/descriptor.proto" ->
            "google.golang.org/protobuf/types/descriptorpb"
       [] p = "google/protobuf/compiler/plugin.proto" ->
            "google.golang.org/protobuf/types/pluginpb"
       [] OTHER -> "google.golang.org/protobuf/internal/testprotos/conformance"]

\* A variant of dirs: the third job's root holds the roots of the other two.
dirsOverlapping ==
  << [path |-> "cmd/protoc-gen-go/testdata", grpcPlugin |-> FALSE,
      annotateFor |-> {"cmd/protoc-gen-go/testdata/annotations/annotations.proto"},
      exclude |-> {}],
     [path |-> "cmd/protoc-gen-go-grpc/testdata", grpcPlugin |-> TRUE,
      annotateFor |-> {}, exclude |-> {}],
     [path |-> "cmd", grpcPlugin |-> FALSE, annotateFor |-> {},
      exclude |-> {"internal/testprotos/irregular/irregular.proto"}] >>

\* The jobs of generateLocalProtos, in the order of the source.
dirs ==
  << [path |-> "cmd/protoc-gen-go/testdata", grpcPlugin |-> FALSE,
      annotateFor |-> {"cmd/protoc-gen-go/testdata/annotations/annotations.proto"},
      exclude |-> {}],
     [path |-> "cmd/protoc-gen-go-grpc/testdata", grpcPlugin |-> TRUE,
      annotateFor |-> {}, exclude |-> {}],
     [path |-> "internal/testprotos", grpcPlugin |-> FALSE, annotateFor |-> {},
      exclude |-> {"internal/testprotos/irregular/irregular.proto"}] >>

\* The targets of generateRemoteProtos, in the order of the source.
files ==
  << [prefix |-> "", path |-> "conformance/conformance.proto"],
     [prefix |-> "benchmarks", path |-> "benchmarks.proto"],
     [prefix |-> "benchmarks",
      path |-> "datasets/google_message1/proto2/benchmark_message1_proto2.proto"],
     [prefix |-> "benchmarks",
      path |-> "datasets/google_message1/proto3/benchmark_message1_proto3.proto"],
     [prefix |-> "benchmarks", path |-> "datasets/google_message2/benchmark_message2.proto"],
     [prefix |-> "benchmarks", path |-> "datasets/google_message3/benchmark_message3.proto"],
     [prefix |-> "benchmarks", path |-> "datasets/google_message3/benchmark_message3_1.proto"],
     [prefix |-> "benchmarks", path |-> "datasets/google_message3/benchmark_message3_2.proto"],
     [prefix |-> "benchmarks", path |-> "datasets/google_message3/benchmark_message3_3.proto"],
     [prefix |-> "benchmarks", path |-> "datasets/google_message3/benchmark_message3_4.proto"],
     [prefix |-> "benchmarks", path |-> "datasets/google_message3/benchmark_message3_5.proto"],
     [prefix |-> "benchmarks", path |-> "datasets/google_message3/benchmark_message3_6.proto"],
     [prefix |-> "benchmarks", path |-> "datasets/google_message3/benchmark_message3_7.proto"],
     [prefix |-> "benchmarks", path |-> "datasets/google_message3/benchmark_message3_8.proto"],
     [prefix |-> "benchmarks", path |-> "datasets/google_message4/benchmark_message4.proto"],
     [prefix |-> "benchmarks", path |-> "datasets/google_message4/benchmark_message4_1.proto"],
     [prefix |-> "benchmarks", path |-> "datasets/google_message4/benchmark_message4_2.proto"],
     [prefix |-> "benchmarks", path |-> "datasets/google_message4/benchmark_message4_3.proto"],
     [prefix |-> "src", path |-> "google/protobuf/any.proto"],
     [prefix |-> "src", path |-> "google/protobuf/compiler/plugin.proto"],
     [prefix |-> "src", path |-> "google/protobuf/descriptor.proto"],
     [prefix |-> "src", path |-> "google/protobuf/duration.proto"],
     [prefix |-> "src", path |-> "google/protobuf/empty.proto"],
     [prefix |-> "src", path |-> "google/protobuf/field_mask.proto"],
     [prefix |-> "src", path |-> "google/protobuf/struct.proto"],
     [prefix |-> "src", path |-> "google/protobuf/test_messages_proto2.proto"],
     [prefix |-> "src", path |-> "google/protobuf/test_messages_proto3.proto"],
     [prefix |-> "src", path |-> "google/protobuf/timestamp.proto"],
     [prefix |-> "src", path |-> "google/protobuf/wrappers.proto"] >>

\* The two ends of the field_mask copy (lines 256-259), relative to tmpDir.
fieldMaskDst == "google.golang.org/protobuf/internal/testprotos/fieldmaskpb/field_mask.pb.go"

fieldMaskSrc == "google.golang.org/genproto/protobuf/field_mask/field_mask.pb.go"

(***************************************************************************)
(* Files.  One file system holds the repository (the destination tree),    *)
(* its description files and the staging directories, which                *)
(* ioutil.TempDir creates inside repoRoot.                                 *)
(***************************************************************************)
Content(kind, src, plugins, annotate, imports) ==
  [kind |-> kind, src |-> src, plugins |-> plugins, annotate |-> annotate,
   imports |-> imports]

ProtoFile == Content("proto", "", "", FALSE, <<>>)

StaleFile == Content("stale", "", "", FALSE, <<>>)

EmptyFile == Content("empty", "", "", FALSE, <<>>)

\* Description files a repository may hold, relative to repoRoot.
TreeCandidates ==
  {"cmd/protoc-gen-go/testdata/annotations/annotations.proto",
   "cmd/protoc-gen-go/testdata/comments/comments.proto",
   "cmd/protoc-gen-go/testdata/extensions/ext/ext.proto",
   "cmd/protoc-gen-go-grpc/testdata/grpc/grpc.proto",
   "internal/testprotos/irregular/irregular.proto",
   "internal/testprotos/legacy/proto2_20160225_2fc053c5/test.proto",
   "internal/testprotos/legacy/proto2_2016022_2fc053c5/test.proto"}

\* Generated and other files a repository may already hold.
DestCandidates ==
  {"cmd/protoc-gen-go/testdata/annotations/annotations.pb.go",
   "internal/testprotos/test/test.pb.go",
   "types/known/anypb/any.pb.go",
   "go.mod"}

\* The name ioutil.TempDir(repoRoot, "tmp") gives the staging directory of a pass.
TmpDir(p) == repoRoot \o "/tmp" \o (IF p = "local" THEN "1" ELSE "2")

Under(dir, p) == HasPrefix(p, dir \o "/")

\* ioutil.WriteFile, and protoc writing an output file.
WriteFile(f, path, c) == (path :> c) @@ f

\* os.RemoveAll(dir).
RemoveAll(f, dir) == [p \in {q \in DOMAIN f : ~Under(dir, q)} |-> f[p]]

\* The repository outside every staging directory: the destination tree.
Staging(p) == Under(TmpDir("local"), p) \/ Under(TmpDir("remote"), p)

DestTree(f) == [p \in {q \in DOMAIN f : ~Staging(q)} |-> f[p]]

(***************************************************************************)
(* protoc: the files one invocation leaves in its output directory.        *)
(***************************************************************************)
\* A variant of LocalOutputs: --go_out names the repository, not the staging directory.
LocalOutputsInPlace(plugins, annotate, dstDir, relPath) ==
  LET stem == TrimSuffix(relPath, ".proto")
  IN {<<Join(repoRoot, stem \o ".pb.go"), Content("pb", relPath, plugins, annotate, <<>>)>>}

\* Local invocation (line 179): paths=source_relative puts x.proto's output
\* beside its source name; annotate_code adds the .meta file.
LocalOutputs(plugins, annotate, dstDir, relPath) ==
  LET stem == TrimSuffix(relPath, ".proto")
      pb == Content("pb", relPath, plugins, annotate, <<>>)
  IN {<<Join(dstDir, stem \o ".pb.go"), pb>>} \cup
     (IF annotate
      THEN {<<Join(dstDir, stem \o ".pb.go.meta"), Content("meta", relPath, plugins, TRUE, <<>>)>>}
      ELSE {})

\* The package a remote description file declares.
RemotePackage(path) ==
  IF Dir(path) = "google/protobuf" /\ ~HasPrefix(Base(path), "test_messages")
  THEN "google.protobuf"
  ELSE "other"

\* Remote invocation (line 251): the output lands under the Go package of the
\* file; field_mask.proto's at the place line 258 reads it from; a
\* google.protobuf file also gets its field-number file (lines 282-284).
RemoteOutputs(dstDir, path) ==
  LET base == TrimSuffix(Base(path), ".proto")
      pb == Content("pb", path, "go", FALSE, <<>>)
      main == IF path = "google/protobuf/field_mask.proto" THEN fieldMaskSrc
              ELSE IF path \in DOMAIN protoPackages
                   THEN Join(protoPackages[path], base \o ".pb.go")
                   ELSE TrimSuffix(path, ".proto") \o ".pb.go"
  IN {<<Join(dstDir, main), pb>>} \cup
     (IF RemotePackage(path) = "google.protobuf"
      THEN {<<Join(dstDir, Join(modulePath \o "/internal/fieldnum", base \o "_gen.go")),
              Content("fieldnum", path, "go", FALSE, <<>>)>>}
      ELSE {})

RECURSIVE WriteAll(_, _)
WriteAll(f, outs) ==
  IF outs = {} THEN f
  ELSE LET o == CHOOSE x \in outs : TRUE
       IN WriteAll(WriteFile(f, o[1], o[2]), outs \ {o})

(***************************************************************************)
(* State.                                                                  *)
(***************************************************************************)
VARIABLES
  env,       \* value of RUN_AS_PROTOC_PLUGIN ("" when unset)
  request,   \* gen.Files of the plugin request
  calls,     \* generator calls made in plugin mode, in order
  generated, \* the field-number files of the plugin response
  run,       \* the -execute flag
  protoRoot, \* the -protoroot flag
  fs,        \* the file system: absolute path -> content
  jobs,      \* the job list generateLocalProtos ranges over
  pc,        \* position of the process
  pass,      \* the generation pass whose deferred RemoveAll is pending
  tmpDirs,   \* the staging directories that exist
  di,        \* index of the current job
  walk,      \* the paths filepath.Walk still hands out, with wi the next
  wi,
  subDirs,   \* the current job's subDirs map
  imports,   \* the current job's imports slice
  fi,        \* index of the current remote target
  log,       \* what the process has done, in order
  out,       \* standard output of the current syncOutput call
  history    \* the syncOutput calls completed

vars ==
  <<env, request, calls, generated, run, protoRoot, fs, jobs, pc, pass, tmpDirs,
    di, walk, wi, subDirs, imports, fi, log, out, history>>

pluginVars == <<env, request, calls, generated>>

flagVars == <<run, protoRoot, jobs>>

loopVars == <<di, walk, wi, subDirs, imports, fi>>

Event(op, arg) == [op |-> op, pass |-> pass, job |-> di, arg |-> arg]

\* A variant of Panics: the error is reported and the caller goes on.
ReportsOnly(op, arg) ==
  /\ pc' = pc
  /\ log' = Append(log, [op |-> op, pass |-> pass, job |-> di, arg |-> arg])

\* check(err) with err != nil: the panic starts.
Panics(op, arg) ==
  /\ pc' = "panic"
  /\ log' = Append(log, [op |-> op, pass |-> pass, job |-> di, arg |-> arg])

\* All orders a range over a map with key set S may take.
Orders(S) ==
  {s \in [1..Cardinality(S) -> S] : \A i, j \in 1..Cardinality(S) : i # j => s[i] # s[j]}

(***************************************************************************)
(* Batch mode: main, generateLocalProtos, generateRemoteProtos.            *)
(***************************************************************************)
\* A variant of mainStart: the remote pass is called first.
mainStartRemoteFirst ==
  /\ pc = "main"
  /\ protoRoot # ""
  /\ pc' = "remoteTempDir"
  /\ UNCHANGED <<pluginVars, flagVars, fs, pass, tmpDirs, loopVars, log, out, history>>

\* main (lines 111-121) up to the call of generateLocalProtos.
mainStart ==
  /\ pc = "main"
  /\ \/ /\ protoRoot = ""
        /\ Panics("config", "protobuf source root is not set")
     \/ /\ protoRoot # ""
        /\ pc' = "localTempDir"
        /\ log' = log
  /\ UNCHANGED <<pluginVars, flagVars, fs, pass, tmpDirs, loopVars, out, history>>

\* ioutil.TempDir, check and defer (lines 124-126 and 209-211).
TempDir(p) ==
  /\ pc = p \o "TempDir"
  /\ \/ /\ Panics("tempdir-failed", p)
        /\ UNCHANGED <<tmpDirs, pass, di, fi>>
     \/ /\ tmpDirs' = tmpDirs \cup {TmpDir(p)}
        /\ pass' = p
        /\ di' = IF p = "local" THEN 1 ELSE 0
        /\ fi' = IF p = "remote" THEN 1 ELSE 0
        /\ pc' = IF p = "local" THEN "localJob" ELSE "remoteProtoc"
        /\ log' = Append(log, [op |-> "tempdir", pass |-> p, job |-> 0, arg |-> TmpDir(p)])
  /\ UNCHANGED <<pluginVars, flagVars, fs, walk, wi, subDirs, imports, out, history>>

\* The paths filepath.Walk(root, ...) hands to its callback: the files at or
\* under root (directories carry none of the suffixes the callbacks look for).
WalkOf(f, root) == WalkOrder({p \in DOMAIN f : Under(root, p)})

\* syncOutput's walk (line 315) begins.
SyncBegins(srcDir) ==
  /\ walk' = WalkOf(fs, srcDir)
  /\ wi' = 1
  /\ out' = <<>>
  /\ pc' = "sync"

SrcDir(d) == Join(repoRoot, d.path)

\* The head of the loop over dirs (lines 144-151); after the last job,
\* syncOutput(repoRoot, tmpDir) (line 205).
LocalJob ==
  /\ pc = "localJob"
  /\ \/ /\ di <= Len(jobs)
        /\ subDirs' = {}
        /\ walk' = WalkOf(fs, SrcDir(jobs[di]))
        /\ wi' = 1
        /\ pc' = "localWalk"
        /\ out' = out
     \/ /\ di > Len(jobs)
        /\ SyncBegins(TmpDir("local"))
        /\ UNCHANGED subDirs
  /\ UNCHANGED <<pluginVars, flagVars, fs, pass, tmpDirs, di, imports, fi, log, history>>

\* The plugin list a job asks protoc for (lines 174-177).
Plugins(d) == IF d.grpcPlugin THEN "go,gogrpc" ELSE "go"

\* One call of the walk callback (lines 151-181).
LocalWalk ==
  /\ pc = "localWalk"
  /\ wi <= Len(walk)
  /\ LET d == jobs[di]
         srcPath == walk[wi]
         relPath == Rel(repoRoot, srcPath)
         srcRelPath == Rel(SrcDir(d), srcPath)
         annotate == relPath \in d.annotateFor
     IN \/ /\ ~HasSuffix(srcPath, ".proto") \/ ExcludeRxMatch(srcPath)
           /\ wi' = wi + 1
           /\ UNCHANGED <<fs, subDirs, pc, log>>
        \/ /\ HasSuffix(srcPath, ".proto") /\ ~ExcludeRxMatch(srcPath)
           /\ relPath \in d.exclude
           /\ subDirs' = subDirs \cup {Dir(srcRelPath)}
           /\ wi' = wi + 1
           /\ UNCHANGED <<fs, pc, log>>
        \/ /\ HasSuffix(srcPath, ".proto") /\ ~ExcludeRxMatch(srcPath)
           /\ relPath \notin d.exclude
           /\ subDirs' = subDirs \cup {Dir(srcRelPath)}
           /\ \/ /\ fs' = WriteAll(fs, LocalOutputs(Plugins(d), annotate, TmpDir("local"), relPath))
                 /\ log' = Append(log, Event("protoc", relPath))
                 /\ wi' = wi + 1
                 /\ pc' = pc
              \/ /\ Panics("protoc-failed", relPath)
                 /\ UNCHANGED <<fs, wi>>
  /\ UNCHANGED <<pluginVars, flagVars, pass, tmpDirs, di, walk, imports, fi, out, history>>

\* The walk has returned (lines 181-187).
LocalWalkDone ==
  /\ pc = "localWalk"
  /\ wi > Len(walk)
  /\ \/ /\ Base(jobs[di].path) = "testdata"
        /\ pc' = "localImports"
        /\ di' = di
     \/ /\ Base(jobs[di].path) # "testdata"
        /\ pc' = "localJob"
        /\ di' = di + 1
  /\ UNCHANGED <<pluginVars, flagVars, fs, pass, tmpDirs, walk, wi, subDirs, imports,
                 fi, log, out, history>>

\* fmt.Sprintf("_ %q", path.Join(modulePath, d.path, sd)) (line 190).
ImportLine(d, sd) == "_ \"" \o Join(Join(modulePath, d.path), sd) \o "\""

\* The range over subDirs (lines 188-191), in whatever order the map yields.
LocalImports ==
  /\ pc = "localImports"
  /\ \E order \in Orders(subDirs) :
       imports' = [i \in 1..Len(order) |-> ImportLine(jobs[di], order[i])]
  /\ pc' = "localGenTest"
  /\ UNCHANGED <<pluginVars, flagVars, fs, pass, tmpDirs, di, walk, wi, subDirs, fi,
                 log, out, history>>

\* The directory a file is written into exists: protoc made it for an output.
DirExists(f, dir) == \E p \in DOMAIN f : Under(dir, p)

GenTestPath(d) == Join(TmpDir("local"), d.path \o "/gen_test.go")

\* sort.Strings, format.Source and ioutil.WriteFile (lines 192-201).
\* format.Source lays the text out and keeps the import lines as given.
LocalGenTest ==
  /\ pc = "localGenTest"
  /\ LET d == jobs[di]
         sorted == SortStrings(imports)
     IN \/ /\ DirExists(fs, Dir(GenTestPath(d)))
           /\ fs' = WriteFile(fs, GenTestPath(d), Content("gen_test", d.path, "", FALSE, sorted))
           /\ log' = Append(log, Event("gen_test", d.path))
           /\ pc' = "localJob"
           /\ di' = di + 1
           /\ imports' = <<>>
        \/ /\ Panics("gen_test-failed", d.path)
           /\ UNCHANGED <<fs, di, imports>>
  /\ UNCHANGED <<pluginVars, flagVars, pass, tmpDirs, walk, wi, subDirs, fi, out, history>>

\* One target of the loop over files (lines 250-252).
RemoteProtoc ==
  /\ pc = "remoteProtoc"
  /\ fi <= Len(files)
  /\ \/ /\ fs' = WriteAll(fs, RemoteOutputs(TmpDir("remote"), files[fi].path))
        /\ log' = Append(log, Event("protoc", files[fi].path))
        /\ fi' = fi + 1
        /\ pc' = pc
     \/ /\ Panics("protoc-failed", files[fi].path)
        /\ UNCHANGED <<fs, fi>>
  /\ UNCHANGED <<pluginVars, flagVars, pass, tmpDirs, di, walk, wi, subDirs, imports,
                 out, history>>

\* A variant of CopyFile: the destination is created before the source is read.
CopyFileTruncated(f, dstPath, srcPath) == WriteFile(f, dstPath, EmptyFile)

\* copyFile (lines 335-340): a failure leaves the destination as it was.
CopyFile(f, dstPath, srcPath) == WriteFile(f, dstPath, f[srcPath])

\* The field_mask copy, then syncOutput(repoRoot, tmpDir/modulePath)
\* (lines 256-261).
RemoteCopy ==
  /\ pc = "remoteProtoc"
  /\ fi > Len(files)
  /\ LET dstPath == Join(TmpDir("remote"), fieldMaskDst)
         srcPath == Join(TmpDir("remote"), fieldMaskSrc)
     IN \/ /\ srcPath \in DOMAIN fs
           /\ fs' = CopyFile(fs, dstPath, srcPath)
           /\ log' = Append(log, Event("copy", fieldMaskDst))
           /\ walk' = WalkOf(fs', Join(TmpDir("remote"), modulePath))
           /\ wi' = 1
           /\ out' = <<>>
           /\ pc' = "sync"
        \/ /\ Panics("copy-failed", fieldMaskDst)
           /\ UNCHANGED <<fs, walk, wi, out>>
  /\ UNCHANGED <<pluginVars, flagVars, pass, tmpDirs, di, subDirs, imports, fi, history>>

(***************************************************************************)
(* syncOutput and the end of a pass.                                       *)
(***************************************************************************)
\* The srcDir syncOutput is called with (lines 205 and 261).
SyncSrcDir(p) == IF p = "local" THEN TmpDir("local") ELSE Join(TmpDir("remote"), modulePath)

\* What diff -N reads at a path: a missing file counts as an empty one.
DiffSide(f, path) == IF path \in DOMAIN f THEN f[path] ELSE EmptyFile

\* diff dstPath srcPath -N -u prints something exactly when the sides differ.
Differs(f, dstPath, srcPath) == DiffSide(f, dstPath) # DiffSide(f, srcPath)

\* One call of syncOutput's walk callback (lines 315-332).
SyncStep ==
  /\ pc = "sync"
  /\ wi <= Len(walk)
  /\ LET srcPath == walk[wi]
         relPath == Rel(SyncSrcDir(pass), srcPath)
         dstPath == Join(repoRoot, relPath)
     IN \/ /\ ~HasSuffix(srcPath, ".go") /\ ~HasSuffix(srcPath, ".meta")
           /\ wi' = wi + 1
           /\ UNCHANGED <<fs, out, pc, log>>
        \/ /\ HasSuffix(srcPath, ".go") \/ HasSuffix(srcPath, ".meta")
           /\ run
           /\ out' = Append(out, [mark |-> "#", path |-> relPath])
           /\ \/ /\ fs' = CopyFile(fs, dstPath, srcPath)
                 /\ log' = Append(log, Event("sync", relPath))
                 /\ wi' = wi + 1
                 /\ pc' = pc
              \/ /\ Panics("sync-failed", relPath)
                 /\ UNCHANGED <<fs, wi>>
        \/ /\ HasSuffix(srcPath, ".go") \/ HasSuffix(srcPath, ".meta")
           /\ ~run
           /\ out' = IF Differs(fs, dstPath, srcPath)
                     THEN Append(out, [mark |-> "diff", path |-> relPath])
                     ELSE out
           /\ log' = Append(log, Event("sync", relPath))
           /\ wi' = wi + 1
           /\ UNCHANGED <<fs, pc>>
  /\ UNCHANGED <<pluginVars, flagVars, pass, tmpDirs, di, walk, subDirs, imports, fi, history>>

\* What a finished syncOutput call leaves behind.
SyncRecord == [run |-> run, out |-> out, dest |-> DestTree(fs)]

\* syncOutput and then the pass return: the deferred os.RemoveAll(tmpDir)
\* runs (lines 126 and 211), and main goes on (lines 119-121).
PassReturn ==
  /\ pc = "sync"
  /\ wi > Len(walk)
  /\ history' = Append(history, SyncRecord)
  /\ fs' = RemoveAll(fs, TmpDir(pass))
  /\ tmpDirs' = tmpDirs \ {TmpDir(pass)}
  /\ log' = Append(log, Event("remove", TmpDir(pass)))
  /\ pass' = "none"
  /\ pc' = IF pass = "local" THEN "remoteTempDir" ELSE "done"
  /\ UNCHANGED <<pluginVars, flagVars, loopVars, out>>

\* A variant of Unwind: the process exits without running deferred calls.
UnwindNoDefer ==
  /\ pc = "panic"
  /\ pc' = "crashed"
  /\ UNCHANGED <<pluginVars, flagVars, fs, tmpDirs, log, pass, loopVars, out, history>>

\* A panic unwinds: the deferred os.RemoveAll(tmpDir) of the pass it left
\* runs, and the process dies (lines 350-354).
Unwind ==
  /\ pc = "panic"
  /\ pc' = "crashed"
  /\ \/ /\ pass # "none"
        /\ fs' = RemoveAll(fs, TmpDir(pass))
        /\ tmpDirs' = tmpDirs \ {TmpDir(pass)}
        /\ log' = Append(log, Event("remove", TmpDir(pass)))
     \/ /\ pass = "none"
        /\ UNCHANGED <<fs, tmpDirs, log>>
  /\ UNCHANGED <<pluginVars, flagVars, pass, loopVars, out, history>>

(***************************************************************************)
(* Plugin mode: the protogen.Run callback and generateFieldNumbers.        *)
(***************************************************************************)
generatedPreamble ==
  << "// Copyright 2019 The Go Authors. All rights reserved.",
     "// Use of this source code is governed by a BSD-style",
     "// license that can be found in the LICENSE file.",
     "",
     "// Code generated by generate-protos. DO NOT EDIT.",
     "" >>

\* A line g.P writes that is no constant.
TextLine(text) ==
  [kind |-> "text", text |-> text, number |-> 0, comment |-> "", msg |-> <<>>, fld |-> 0]

\* The type name of a field's trailing comment (lines 298-304).
TypeName(fd) ==
  CASE fd.kind = "enum" -> fd.enum
    [] fd.kind \in {"message", "group"} -> fd.message
    [] OTHER -> fd.kind

\* The constant of one field (line 305); msg and fld say which field of the
\* descriptor the line was written for.
ConstLine(message, at, k) ==
  LET field == message.fields[k]
  IN [kind |-> "const", text |-> message.goName \o "_" \o field.goName,
      number |-> field.number, comment |-> field.cardinality \o " " \o TypeName(field),
      msg |-> at, fld |-> k]

\* processMessages (lines 292-310), from the i-th message of the list on; at
\* is the index path of the message that declares the list.
RECURSIVE ProcessMessagesFrom(_, _, _)
ProcessMessagesFrom(messages, at, i) ==
  IF i > Len(messages) THEN <<>>
  ELSE LET message == messages[i]
           here == Append(at, i)
       IN << TextLine("// Field numbers for " \o message.fullName \o "."), TextLine("const (") >>
          \o [k \in 1..Len(message.fields) |-> ConstLine(message, here, k)]
          \o << TextLine(")") >>
          \o ProcessMessagesFrom(message.messages, here, 1)
          \o ProcessMessagesFrom(messages, at, i + 1)

\* A variant of processMessages: nested messages are not visited.
RECURSIVE processMessagesTopLevel(_)
processMessagesTopLevel(messages) ==
  IF messages = <<>> THEN <<>>
  ELSE processMessagesTopLevel(SubSeq(messages, 1, Len(messages) - 1))
       \o << TextLine("// Field numbers for " \o messages[Len(messages)].fullName \o "."),
             TextLine("const (") >>
       \o [k \in 1..Len(messages[Len(messages)].fields) |->
             ConstLine(messages[Len(messages)], <<Len(messages)>>, k)]
       \o << TextLine(")") >>

processMessages(messages) == ProcessMessagesFrom(messages, <<>>, 1)

\* generateFieldNumbers (lines 277-312): the generated files it adds.
generateFieldNumbers(file) ==
  IF file.package # "google.protobuf" THEN <<>>
  ELSE LET importPath == modulePath \o "/internal/fieldnum"
           base == TrimSuffix(Base(file.path), ".proto")
       IN << [name |-> importPath \o "/" \o base \o "_gen.go",
              lines |-> [i \in 1..Len(generatedPreamble) |-> TextLine(generatedPreamble[i])]
                        \o << TextLine("package " \o Base(importPath)), TextLine("") >>
                        \o processMessages(file.messages)] >>

\* A variant of PluginCalls: file.Generate is not looked at.
PluginCallsAll(plugin, file) ==
  CASE plugin = "go" ->
         << [backend |-> "gengo", file |-> file.path],
            [backend |-> "fieldnum", file |-> file.path] >>
    [] plugin = "gogrpc" -> << [backend |-> "gengogrpc", file |-> file.path] >>
    [] OTHER -> <<>>

\* The body of the two loops (lines 75-88) for one plugin name and one file.
PluginCalls(plugin, file) ==
  IF ~file.generate THEN <<>>
  ELSE CASE plugin = "go" ->
              << [backend |-> "gengo", file |-> file.path],
                 [backend |-> "fieldnum", file |-> file.path] >>
         [] plugin = "gogrpc" -> << [backend |-> "gengogrpc", file |-> file.path] >>
         [] OTHER -> <<>>

PluginFiles(plugin, file) ==
  IF file.generate /\ plugin = "go" THEN generateFieldNumbers(file) ELSE <<>>

\* The callback handed to protogen.Run (lines 74-90): plugin names outermost,
\* files innermost; k counts the iterations done.
RECURSIVE RunLoops(_, _, _)
RunLoops(plugins, gfiles, k) ==
  IF k >= Len(plugins) * Len(gfiles) THEN [calls |-> <<>>, generated |-> <<>>]
  ELSE LET plugin == plugins[(k \div Len(gfiles)) + 1]
           file == gfiles[(k % Len(gfiles)) + 1]
           rest == RunLoops(plugins, gfiles, k + 1)
       IN [calls |-> PluginCalls(plugin, file) \o rest.calls,
           generated |-> PluginFiles(plugin, file) \o rest.generated]

\* init (lines 53-69): the repository root and module path are resolved, then
\* the environment decides the mode.
initResolve ==
  /\ pc = "init"
  /\ \/ /\ Panics("startup-failed", "git rev-parse / go list")
     \/ /\ env # ""
        /\ pc' = "plugin"
        /\ log' = log
     \/ /\ env = ""
        /\ pc' = "main"
        /\ log' = log
  /\ UNCHANGED <<pluginVars, flagVars, fs, pass, tmpDirs, loopVars, out, history>>

\* protogen.Run with the callback (lines 72-90).
initPlugin ==
  /\ pc = "plugin"
  /\ LET r == RunLoops(Split(env), request, 0)
     IN /\ calls' = r.calls
        /\ generated' = r.generated
  /\ pc' = "pluginDone"
  /\ UNCHANGED <<env, request, flagVars, fs, pass, tmpDirs, loopVars, log, out, history>>

\* os.Exit(0) (line 91).
initExit ==
  /\ pc = "pluginDone"
  /\ pc' = "exit"
  /\ UNCHANGED <<pluginVars, flagVars, fs, pass, tmpDirs, loopVars, log, out, history>>

(***************************************************************************)
(* The descriptors of a plugin request.                                    *)
(***************************************************************************)
FieldPool ==
  << [goName |-> "Name", number |-> 1, cardinality |-> "optional", kind |-> "string",
      enum |-> "", message |-> ""],
     [goName |-> "Tags", number |-> 2, cardinality |-> "repeated", kind |-> "string",
      enum |-> "", message |-> ""],
     [goName |-> "Kind", number |-> 3, cardinality |-> "optional", kind |-> "enum",
      enum |-> "google.protobuf.Field.Kind", message |-> ""],
     [goName |-> "Child", number |-> 4, cardinality |-> "required", kind |-> "group",
      enum |-> "", message |-> "google.protobuf.X.Child"],
     [goName |-> "Value", number |-> 5, cardinality |-> "repeated", kind |-> "message",
      enum |-> "", message |-> "google.protobuf.Value"] >>

\* nf fields of the pool, from its rot-th on.
FieldsOf(nf, rot) == [k \in 1..nf |-> FieldPool[((rot + k - 1) % Len(FieldPool)) + 1]]

Digit(i) == Char("0123456789", i + 1)

\* A message with nf fields and, depth levels deep, width nested messages.
RECURSIVE MessageTree(_, _, _, _, _, _)
MessageTree(depth, width, nf, rot, fullName, goName) ==
  [fullName |-> fullName, goName |-> goName, fields |-> FieldsOf(nf, rot),
   messages |-> IF depth = 0 THEN <<>>
                ELSE [i \in 1..width |->
                        MessageTree(depth - 1, width, nf, rot + i, fullName \o ".N" \o Digit(i),
                                    goName \o "_N" \o Digit(i))]]

FileDesc(package, depth, width, nf, rot, generate) ==
  [path |-> IF package = "google.protobuf" THEN "google/protobuf/x.proto" ELSE "test/x.proto",
   package |-> package, generate |-> generate,
   messages |-> [i \in 1..width |->
                   MessageTree(depth, width, nf, rot + i - 1, package \o ".X" \o Digit(i),
                               "X" \o Digit(i))]]

Shapes == {<<0, 0>>} \cup {<<d, w>> : d \in 0..MaxDepth, w \in 1..MaxWidth}

FilePool ==
  {FileDesc(package, sh[1], sh[2], nf, rot, generate) :
     package \in {"google.protobuf", "goproto.proto.test"}, sh \in Shapes,
     nf \in 0..MaxFields, rot \in {0, 2}, generate \in BOOLEAN}

\* The k-th further request file (file names of a request are distinct),
\* with a service-only description.
OtherFile(k, generate) ==
  [path |-> "grpc/grpc" \o Digit(k) \o ".proto", package |-> "goproto.protoc.grpc",
   generate |-> generate, messages |-> <<>>]

Requests ==
  {<<>>} \cup UNION {{<<f>> \o [k \in 1..(n - 1) |-> OtherFile(k, t[k])] :
                         f \in FilePool, t \in [1..(n - 1) -> BOOLEAN]} :
                       n \in 1..MaxReqFiles}

EnvChoices == {"go", "go,gogrpc", "gogrpc,go", "lint,gogrpc"}

(***************************************************************************)
(* The program.                                                            *)
(***************************************************************************)
Trees == SUBSET TreeCandidates

\* A repository with the description files T and the other files D.
Repository(T, D) ==
  [p \in {Join(repoRoot, t) : t \in T \cup D} |->
     IF HasSuffix(p, ".proto") THEN ProtoFile ELSE StaleFile]

Idle ==
  /\ calls = <<>>
  /\ generated = <<>>
  /\ pass = "none"
  /\ tmpDirs = {}
  /\ di = 0
  /\ walk = <<>>
  /\ wi = 0
  /\ subDirs = {}
  /\ imports = <<>>
  /\ fi = 0
  /\ log = <<>>
  /\ out = <<>>
  /\ history = <<>>

\* The process starts as protoc's plugin.
InitPluginMode ==
  /\ env \in EnvChoices
  /\ request \in Requests
  /\ run = FALSE
  /\ protoRoot = ""
  /\ fs = Repository({}, {})
  /\ jobs = dirs
  /\ pc = "init"
  /\ Idle

\* The process starts as the batch driver, over the job list J.
InitBatchMode(J) ==
  /\ env = ""
  /\ request = <<>>
  /\ run \in BOOLEAN
  /\ protoRoot \in {"", "/protobuf"}
  /\ \E T \in Trees : fs = Repository(T, DestCandidates)
  /\ jobs = J
  /\ pc = "init"
  /\ Idle

Init == InitPluginMode \/ InitBatchMode(dirs)

Next ==
  \/ initResolve
  \/ initPlugin
  \/ initExit
  \/ mainStart
  \/ TempDir("local")
  \/ LocalJob
  \/ LocalWalk
  \/ LocalWalkDone
  \/ LocalImports
  \/ LocalGenTest
  \/ SyncStep
  \/ PassReturn
  \/ TempDir("remote")
  \/ RemoteProtoc
  \/ RemoteCopy
  \/ Unwind

Spec == Init /\ [][Next]_vars

(***************************************************************************)
(* The local pass over every order of the job list.                        *)
(***************************************************************************)
Range(s) == {s[i] : i \in 1..Len(s)}

InitPerm ==
  /\ \E J \in Orders(Range(dirs)) : InitBatchMode(J)
  /\ ~run
  /\ protoRoot # ""

NextLocal ==
  \/ initResolve
  \/ mainStart
  \/ TempDir("local")
  \/ LocalJob
  \/ LocalWalk
  \/ LocalWalkDone
  \/ LocalImports
  \/ LocalGenTest
  \/ Unwind

SpecPerm == InitPerm /\ [][NextLocal]_vars

(***************************************************************************)
(* syncOutput called again and again on one staged tree.                   *)
(***************************************************************************)
SyncCandidates == {"a/x.pb.go", "a/x.pb.go.meta", "a/notes.txt"}

\* How a candidate starts: not staged, or staged with some content beside a
\* destination that is missing, the same or different.
SyncOptions ==
  {<<"none", "none">>, <<"text", "missing">>, <<"text", "same">>, <<"text", "stale">>,
   <<"empty", "missing">>}

StagedContent(c, o) == IF o[1] = "empty" THEN EmptyFile ELSE Content("pb", c, "go", FALSE, <<>>)

SyncWorld(w) ==
  WriteAll(Repository({}, {}),
    {<<Join(TmpDir("local"), c), StagedContent(c, w[c])>> : c \in {x \in SyncCandidates : w[x][1] # "none"}}
    \cup {<<Join(repoRoot, c), StagedContent(c, w[c])>> : c \in {x \in SyncCandidates : w[x][2] = "same"}}
    \cup {<<Join(repoRoot, c), StaleFile>> : c \in {x \in SyncCandidates : w[x][2] = "stale"}})

InitSync ==
  /\ env = ""
  /\ request = <<>>
  /\ calls = <<>>
  /\ generated = <<>>
  /\ run \in BOOLEAN
  /\ protoRoot = "/protobuf"
  /\ \E w \in [SyncCandidates -> SyncOptions] : fs = SyncWorld(w)
  /\ jobs = dirs
  /\ pc = "sync"
  /\ pass = "local"
  /\ tmpDirs = {TmpDir("local")}
  /\ di = Len(dirs) + 1
  /\ walk = WalkOf(fs, TmpDir("local"))
  /\ wi = 1
  /\ subDirs = {}
  /\ imports = <<>>
  /\ fi = 0
  /\ log = <<>>
  /\ out = <<>>
  /\ history = <<>>

\* syncOutput has returned and is called once more on the same staged tree,
\* in either mode.
SyncAgain ==
  /\ pc = "sync"
  /\ wi > Len(walk)
  /\ Len(history) < MaxSyncs
  /\ history' = Append(history, SyncRecord)
  /\ run' \in BOOLEAN
  /\ walk' = WalkOf(fs, SyncSrcDir(pass))
  /\ wi' = 1
  /\ out' = <<>>
  /\ UNCHANGED <<pluginVars, protoRoot, jobs, fs, pc, pass, tmpDirs, di, subDirs, imports,
                 fi, log>>

NextSync ==
  \/ SyncStep
  \/ SyncAgain
  \/ Unwind

SpecSync == InitSync /\ [][NextSync]_vars

(***************************************************************************)
(* Properties.                                                             *)
(***************************************************************************)
FailureOps ==
  {"config", "startup-failed", "tempdir-failed", "protoc-failed", "gen_test-failed",
   "copy-failed", "sync-failed"}

IsFailure(e) == e.op \in FailureOps

\* The staged file a destination path corresponds to in pass p.
StagedFor(p, dstPath) == Join(SyncSrcDir(p), Rel(repoRoot, dstPath))

\* C1: the destination tree changes only in a syncOutput step in apply
\* mode, one file at a time, and the file then holds the content of the
\* staged file at the same relative path; in diff mode it never changes.
C1_DestOnlyBySync ==
  [][DestTree(fs') # DestTree(fs) =>
       /\ pc = "sync"
       /\ run
       /\ \E q \in DOMAIN DestTree(fs') :
            /\ StagedFor(pass, q) \in DOMAIN fs
            /\ Under(TmpDir(pass), StagedFor(pass, q))
            /\ DestTree(fs') = WriteFile(DestTree(fs), q, fs[StagedFor(pass, q)])]_vars

\* Apply mode has ended a batch run with generated files in the destination.
C1_Witness ==
  /\ pc = "done"
  /\ run
  /\ \E q \in DOMAIN DestTree(fs) : fs[q].kind = "pb" /\ fs[q].plugins = "go,gogrpc"
  /\ \E q \in DOMAIN DestTree(fs) : fs[q].kind = "gen_test"
  /\ \E q \in DOMAIN DestTree(fs) : fs[q].kind = "fieldnum"

LocalPassOver == pass = "remote" \/ pc \in {"remoteTempDir", "done", "crashed", "exit"}

RunOver == pc \in {"done", "crashed", "exit"}

NoStaging(dir) == dir \notin tmpDirs /\ ~\E q \in DOMAIN fs : Under(dir, q)

\* C3: once a pass is over, however it ended, its staging directory is gone,
\* and no run ends with a staging directory in existence.
C3_StagingRemoved ==
  /\ LocalPassOver => NoStaging(TmpDir("local"))
  /\ RunOver => NoStaging(TmpDir("local")) /\ NoStaging(TmpDir("remote")) /\ tmpDirs = {}

\* A pass has died with files staged, at one of the failures of the claim.
C3_Witness ==
  /\ pc = "crashed"
  /\ \E i \in 1..Len(log) : log[i].op = "protoc" /\ log[i].pass = pass
  /\ \E i \in 1..Len(log) :
       log[i].op \in {"protoc-failed", "gen_test-failed", "copy-failed", "sync-failed"}

\* Content that pass p generated.
OutputOfPass(p, c) ==
  /\ c.kind \in {"pb", "meta", "gen_test", "fieldnum"}
  /\ IF p = "local"
     THEN \E i \in 1..Len(jobs) : c.src = jobs[i].path \/ Under(jobs[i].path, c.src)
     ELSE \E i \in 1..Len(files) : c.src = files[i].path

\* After a failure nothing runs but the deferred removal.
NothingAfterFailure ==
  \A i \in 1..Len(log) : IsFailure(log[i]) => \A j \in (i + 1)..Len(log) : log[j].op = "remove"

\* A missing -protoroot aborts before any staging directory or protoc call.
ConfigAbortsFirst ==
  \A i \in 1..Len(log) : log[i].op = "config" => i = 1 /\ tmpDirs = {}

FailedAt(ops) == pc \in {"panic", "crashed"} /\ \E i \in 1..Len(log) : log[i].op \in ops

\* C4 as stated: after any failure of a pass, file copies of syncOutput
\* included, nothing further runs and none of that pass's output is in the
\* destination tree.
C4_NoPartialSuccess ==
  /\ NothingAfterFailure
  /\ ConfigAbortsFirst
  /\ FailedAt(FailureOps) /\ pass # "none" =>
       ~\E q \in DOMAIN DestTree(fs) : OutputOfPass(pass, fs[q])

\* C4, amended: nothing runs after a failure; a failure before the pass's
\* syncOutput leaves none of the pass's output in the destination tree; a
\* failed copy inside syncOutput leaves there exactly the files synced
\* before it.
C4_FailureIsFatal ==
  /\ NothingAfterFailure
  /\ ConfigAbortsFirst
  /\ FailedAt(FailureOps \ {"sync-failed"}) /\ pass # "none" =>
       ~\E q \in DOMAIN DestTree(fs) : OutputOfPass(pass, fs[q])
  /\ FailedAt({"sync-failed"}) =>
       {q \in DOMAIN DestTree(fs) : OutputOfPass(pass, fs[q])}
         = {Join(repoRoot, log[i].arg) : i \in {k \in 1..Len(log) : log[k].op = "sync" /\ log[k].pass = pass}}

\* A protoc call has failed after others of the pass had staged output.
C4_Witness ==
  /\ pc = "crashed"
  /\ run
  /\ pass = "remote"
  /\ \E i \in 1..Len(log) : log[i].op = "protoc-failed" /\ log[i].pass = "remote"
  /\ \E i \in 1..Len(log) : log[i].op = "protoc" /\ log[i].pass = "remote"
  /\ \E q \in DOMAIN DestTree(fs) : OutputOfPass("local", fs[q])

\* The place of an event in the order of a batch run.
Rank(e) ==
  (IF e.pass = "local" THEN 0 ELSE 4) +
  (CASE e.op = "tempdir" -> 1
     [] e.op \in {"protoc", "gen_test", "copy"} -> 2
     [] e.op = "sync" -> 3
     [] OTHER -> 4)

Steps == {i \in 1..Len(log) : ~IsFailure(log[i])}

\* C10 as stated: no syncOutput step happens before the remote pass has
\* finished generating (its last step is the field_mask copy).
C10_SyncAfterRemoteGeneration ==
  \A i \in 1..Len(log) :
    log[i].op = "sync" =>
      \E j \in 1..(i - 1) : log[j].op = "copy" /\ log[j].pass = "remote"

\* C10, amended: a batch run goes local generation, local syncOutput, removal
\* of the local staging directory, remote generation, remote syncOutput,
\* removal; a run that ends normally has gone through both passes.
C10_PassOrder ==
  /\ \A i, j \in Steps : i < j => Rank(log[i]) <= Rank(log[j])
  /\ pc = "done" => {1, 4, 5, 8} \subseteq {Rank(log[i]) : i \in Steps}

\* A run has ended with steps of all four phases.
C10_Witness ==
  /\ pc = "done"
  /\ {Rank(log[i]) : i \in Steps} = 1..8

\* The staged files syncOutput copies or compares, in the re-sync runs.
SyncedFiles ==
  {p \in DOMAIN fs : Under(TmpDir("local"), p) /\ (HasSuffix(p, ".go") \/ HasSuffix(p, ".meta"))}

OutPaths(o) == {o[k].path : k \in 1..Len(o)}

\* C2: while the staged tree exists, after one syncOutput call in apply mode
\* has returned every staged .go or .meta
\* file has its staged content in the destination; every later call leaves
\* the destination as it is, a later apply reports the same paths and a later
\* diff reports nothing.
C2_ApplyIdempotent ==
  \A i \in 1..Len(history) :
    history[i].run /\ TmpDir("local") \in tmpDirs =>
      /\ \A p \in SyncedFiles :
           LET q == Join(repoRoot, Rel(TmpDir("local"), p))
           IN q \in DOMAIN history[i].dest /\ history[i].dest[q] = fs[p]
      /\ OutPaths(history[i].out) = {Rel(TmpDir("local"), p) : p \in SyncedFiles}
      /\ \A j \in (i + 1)..Len(history) :
           /\ history[j].dest = history[i].dest
           /\ history[j].run => OutPaths(history[j].out) = OutPaths(history[i].out)
           /\ ~history[j].run => history[j].out = <<>>

\* A diff that reports a difference, an apply, a second apply, a diff that
\* reports none.
C2_Witness ==
  /\ Len(history) = 4
  /\ ~history[1].run /\ Len(history[1].out) = 2
  /\ history[2].run /\ history[2].dest # history[1].dest
  /\ history[3].run
  /\ ~history[4].run /\ history[4].out = <<>>

\* The candidate description files that lie in a legacy dated snapshot.
LegacySnapshots == {"internal/testprotos/legacy/proto2_20160225_2fc053c5/test.proto"}

InRepo(t) == Join(repoRoot, t) \in DOMAIN fs

\* The description files job d has to generate.
Eligible(d) ==
  {t \in TreeCandidates :
     InRepo(t) /\ Under(d.path, t) /\ t \notin LegacySnapshots /\ t \notin d.exclude}

Invocations(j, t, ops) ==
  {i \in 1..Len(log) :
     log[i].op \in ops /\ log[i].pass = "local" /\ log[i].job = j /\ log[i].arg = t}

\* Job j's walk and import file are behind the process.
JobDone(j) == (pass = "local" /\ di > j) \/ pass = "remote" \/ pc \in {"remoteTempDir", "done"}

\* C5: protoc is invoked only on description files under the job's root that
\* are neither in a legacy dated snapshot nor in the job's exclude set, no
\* staged file comes from another description file, and when a job is done
\* each of its files has been generated exactly once in it.
C5_ExclusionCorrect ==
  /\ \A i \in 1..Len(log) :
       log[i].op \in {"protoc", "protoc-failed"} /\ log[i].pass = "local" =>
         log[i].arg \in Eligible(jobs[log[i].job])
  /\ \A p \in DOMAIN fs :
       Under(TmpDir("local"), p) /\ fs[p].kind \in {"pb", "meta"} =>
         \E j \in 1..Len(jobs) : fs[p].src \in Eligible(jobs[j])
  /\ \A j \in 1..Len(jobs) : \A t \in TreeCandidates :
       /\ Cardinality(Invocations(j, t, {"protoc", "protoc-failed"})) <= 1
       /\ JobDone(j) /\ t \in Eligible(jobs[j]) => Cardinality(Invocations(j, t, {"protoc"})) = 1

\* The third job is done over a tree with an excluded file, a legacy snapshot
\* and a file whose directory only resembles one.
C5_Witness ==
  /\ JobDone(3)
  /\ pass = "local"
  /\ InRepo("internal/testprotos/irregular/irregular.proto")
  /\ InRepo("internal/testprotos/legacy/proto2_20160225_2fc053c5/test.proto")
  /\ Cardinality(Invocations(3, "internal/testprotos/legacy/proto2_2016022_2fc053c5/test.proto",
                             {"protoc"})) = 1

\* The import lines of the candidate sub-packages of the testdata roots, in
\* ascending byte order.
SortedImports ==
  << "_ \"google.golang.org/protobuf/cmd/protoc-gen-go-grpc/testdata/grpc\"",
     "_ \"google.golang.org/protobuf/cmd/protoc-gen-go/testdata/annotations\"",
     "_ \"google.golang.org/protobuf/cmd/protoc-gen-go/testdata/comments\"",
     "_ \"google.golang.org/protobuf/cmd/protoc-gen-go/testdata/extensions/ext\"" >>

\* The import line of the directory of a candidate description file.
ImportOf(t) ==
  CASE t = "cmd/protoc-gen-go-grpc/testdata/grpc/grpc.proto" -> SortedImports[1]
    [] t = "cmd/protoc-gen-go/testdata/annotations/annotations.proto" -> SortedImports[2]
    [] t = "cmd/protoc-gen-go/testdata/comments/comments.proto" -> SortedImports[3]
    [] t = "cmd/protoc-gen-go/testdata/extensions/ext/ext.proto" -> SortedImports[4]
    [] OTHER -> ""

\* The import list job d's file must hold: one line for each directory the
\* walk found a description file in, ascending.
ImportsFor(d) ==
  LET found == {ImportOf(t) : t \in {x \in TreeCandidates : InRepo(x) /\ Under(d.path, x)}}
      Found(line) == line \in found
  IN SelectSeq(SortedImports, Found)

GenTests == {p \in DOMAIN fs : Under(TmpDir("local"), p) /\ fs[p].kind = "gen_test"}

\* C6: while the local staging directory exists, each finished job with a
\* root named testdata has staged one import file, whose imports are the
\* discovered sub-packages once each in ascending order, and no other file of
\* that kind is staged.
C6_SortedImportFile ==
  TmpDir("local") \in tmpDirs =>
    /\ \A j \in 1..Len(jobs) :
         JobDone(j) /\ Base(jobs[j].path) = "testdata" =>
           /\ GenTestPath(jobs[j]) \in GenTests
           /\ fs[GenTestPath(jobs[j])].imports = ImportsFor(jobs[j])
    /\ GenTests \subseteq
         {GenTestPath(jobs[j]) :
            j \in {k \in 1..Len(jobs) : Base(jobs[k].path) = "testdata" /\ (JobDone(k) \/ di = k)}}
    /\ \A p \in GenTests : HasSuffix(p, "/testdata/gen_test.go")

\* Both testdata jobs are done, the first over three sub-packages.
C6_Witness ==
  /\ TmpDir("local") \in tmpDirs
  /\ JobDone(3)
  /\ Cardinality(GenTests) = 2
  /\ Len(fs[GenTestPath(dirs[1])].imports) = 3

\* The backends a marked file is handed to, for each value of
\* RUN_AS_PROTOC_PLUGIN of EnvChoices.
BackendsNamed(e) ==
  CASE e = "go" -> <<"gengo", "fieldnum">>
    [] e = "go,gogrpc" -> <<"gengo", "fieldnum", "gengogrpc">>
    [] e = "gogrpc,go" -> <<"gengogrpc", "gengo", "fieldnum">>
    [] e = "lint,gogrpc" -> <<"gengogrpc">>
    [] OTHER -> <<>>

\* The backends called on the file at path, in the order of the calls.
CallsOn(path) ==
  LET OnPath(c) == c.file = path
      on == SelectSeq(calls, OnPath)
  IN [k \in 1..Len(on) |-> on[k].backend]

\* C7: with RUN_AS_PROTOC_PLUGIN set the process never leaves the plugin
\* states, creates no staging directory, runs neither protoc nor syncOutput
\* and leaves the file tree alone, and once the callback has run each marked
\* request file has been handed to the named backends in list order and no
\* unmarked file to any; with it unset no backend is ever called.
C7_ModeExclusive ==
  /\ env # "" =>
       /\ pc \in {"init", "plugin", "pluginDone", "exit", "panic", "crashed"}
       /\ tmpDirs = {}
       /\ history = <<>>
       /\ out = <<>>
       /\ DOMAIN fs = {}
       /\ \A i \in 1..Len(log) : log[i].op = "startup-failed"
       /\ pc \in {"pluginDone", "exit"} =>
            /\ \A k \in 1..Len(request) :
                 CallsOn(request[k].path)
                   = IF request[k].generate THEN BackendsNamed(env) ELSE <<>>
            /\ \A i \in 1..Len(calls) :
                 \E k \in 1..Len(request) : request[k].path = calls[i].file
       /\ pc \notin {"pluginDone", "exit"} => calls = <<>> /\ generated = <<>>
  /\ env = "" =>
       /\ pc \notin {"plugin", "pluginDone", "exit"}
       /\ calls = <<>>
       /\ generated = <<>>

\* The plugin has exited after a request with a marked and an unmarked file,
\* the backend names given with gogrpc first.
C7_Witness ==
  /\ pc = "exit"
  /\ env = "gogrpc,go"
  /\ Len(request) = 2
  /\ request[1].generate /\ ~request[2].generate
  /\ Len(calls) = 3

\* The message at an index path of a message list.
RECURSIVE MsgAt(_, _)
MsgAt(messages, at) ==
  IF Len(at) = 1 THEN messages[at[1]] ELSE MsgAt(messages[at[1]].messages, Tail(at))

\* The index paths of all messages of a message list, nested ones included.
RECURSIVE MsgPaths(_)
MsgPaths(messages) ==
  UNION {{<<i>>} \cup {<<i>> \o q : q \in MsgPaths(messages[i].messages)} : i \in 1..Len(messages)}

\* Depth-first declaration order of two index paths: a message before its
\* nested messages, those before its next sibling.
VisitedBefore(a, b) ==
  \/ Len(a) < Len(b) /\ SubSeq(b, 1, Len(a)) = a
  \/ \E k \in 1..Len(a) :
       /\ k <= Len(b)
       /\ SubSeq(a, 1, k - 1) = SubSeq(b, 1, k - 1)
       /\ a[k] < b[k]

\* The trailing comment of the field with a number of FieldPool.
CommentOf(number) ==
  CASE number = 1 -> "optional string"
    [] number = 2 -> "repeated string"
    [] number = 3 -> "optional google.protobuf.Field.Kind"
    [] number = 4 -> "required google.protobuf.X.Child"
    [] number = 5 -> "repeated google.protobuf.Value"
    [] OTHER -> ""

IsConst(line) == line.kind = "const"

\* C8: once the callback has run, a marked google.protobuf file handed to the
\* go plugin has one generated file whose constants are one per field of
\* every message, nested ones included, in depth-first declaration order,
\* each with the field's name, number, cardinality and type name; any other
\* request leaves no generated file.
C8_FieldNumbers ==
  pc \in {"pluginDone", "exit"} =>
    IF /\ request # <<>>
       /\ request[1].generate
       /\ request[1].package = "google.protobuf"
       /\ env \in {"go", "go,gogrpc", "gogrpc,go"}
    THEN /\ Len(generated) = 1
         /\ generated[1].name = "google.golang.org/protobuf/internal/fieldnum/x_gen.go"
         /\ LET messages == request[1].messages
                consts == SelectSeq(generated[1].lines, IsConst)
            IN /\ \A at \in MsgPaths(messages) :
                    \A k \in 1..Len(MsgAt(messages, at).fields) :
                      Cardinality({i \in 1..Len(consts) :
                                     consts[i].msg = at /\ consts[i].fld = k}) = 1
               /\ \A i \in 1..Len(consts) :
                    /\ consts[i].msg \in MsgPaths(messages)
                    /\ consts[i].fld \in 1..Len(MsgAt(messages, consts[i].msg).fields)
                    /\ LET message == MsgAt(messages, consts[i].msg)
                           field == message.fields[consts[i].fld]
                       IN /\ consts[i].text = message.goName \o "_" \o field.goName
                          /\ consts[i].number = field.number
                          /\ consts[i].comment = CommentOf(field.number)
               /\ \A i \in 1..Len(consts) : \A j \in (i + 1)..Len(consts) :
                    \/ consts[i].msg = consts[j].msg /\ consts[i].fld < consts[j].fld
                    \/ VisitedBefore(consts[i].msg, consts[j].msg)
    ELSE generated = <<>>

\* The plugin has exited over a google.protobuf file with nested messages,
\* two per level, two fields each.
C8_Witness ==
  /\ pc = "exit"
  /\ Len(generated) = 1
  /\ \E i \in 1..Len(generated[1].lines) :
       /\ generated[1].lines[i].kind = "const"
       /\ Len(generated[1].lines[i].msg) = 2
       /\ generated[1].lines[i].msg[1] = 2
       /\ generated[1].lines[i].fld = 2
       /\ generated[1].lines[i].text = "X2_N1_Child"
       /\ generated[1].lines[i].comment = "required google.protobuf.X.Child"

\* What job d stages, whatever ran before it.
JobStages(d) ==
  UNION {LocalOutputs(Plugins(d), t \in d.annotateFor, TmpDir("local"), t) : t \in Eligible(d)}
  \cup IF Base(d.path) = "testdata"
       THEN {<<GenTestPath(d), Content("gen_test", d.path, "", FALSE, ImportsFor(d))>>}
       ELSE {}

StagedPairs == {<<p, fs[p]>> : p \in {q \in DOMAIN fs : Under(TmpDir("local"), q)}}

\* C9: whatever the order of the jobs, when the last job is done the staging
\* directory holds exactly what each job stages on its own, each description
\* file has been generated by one job only, and no staged path is written
\* by two jobs.
C9_JobIndependence ==
  /\ \A i \in 1..Len(log) : \A j \in 1..Len(log) :
       /\ log[i].op = "protoc" /\ log[j].op = "protoc"
       /\ log[i].pass = "local" /\ log[j].pass = "local"
       /\ log[i].arg = log[j].arg
       => i = j
  /\ pc = "sync" /\ pass = "local" =>
       /\ StagedPairs = UNION {JobStages(d) : d \in Range(jobs)}
       /\ \A d \in Range(jobs) : \A e \in Range(jobs) :
            d # e => {x[1] : x \in JobStages(d)} \cap {x[1] : x \in JobStages(e)} = {}

\* The jobs ran in another order than the source's, and all three staged
\* something.
C9_Witness ==
  /\ pc = "sync"
  /\ pass = "local"
  /\ jobs[1] = dirs[3] /\ jobs[2] = dirs[2]
  /\ Cardinality(GenTests) = 2
  /\ \A d \in Range(jobs) : JobStages(d) # {}
  /\ Cardinality(StagedPairs) >= 8

====
